---- MODULE Spec2Model ----
(***************************************************************************)
(* Model of the abstract robot-dynamics interface CjrlDynamicRobot         *)
(* (interfaces/jrlDynamicRobot.h) and of its humanoid extension            *)
(* CjrlHumanoidDynamicRobot.                                               *)
(*                                                                         *)
(* Every method modelled here is declared pure virtual: the header fixes   *)
(* its signature and, in the comment that precedes it, its contract.  An   *)
(* operation is therefore translated from its documented contract.  Where  *)
(* the header states an effect, the action has that effect; where the      *)
(* header is silent (a duplicate addFixedJoint, a rank out of range, the   *)
(* output matrix of a failed call), the action admits every outcome an     *)
(* implementation of the declaration can produce.                          *)
(***************************************************************************)
EXTENDS Integers, Sequences, FiniteSets, TLC

\* Bounds of the model.
NumJoints == 2      \* joints of the robot, numbered 1..NumJoints
MaxFixed == 3       \* cap on the length of the vector of fixed joints
MaxDof == 7         \* largest numberDof() of a modelled robot
MaxCols == 8        \* widest output matrix handed to a Jacobian method
MaxOffset == 2      \* largest column offset handed to a Jacobian method

\* Program constants.
FreeFlyerDof == 6   \* "It must be at least numberDof()-6 otherwise"
UIntWidth == 16     \* numberDof() is an unsigned int: 16 bits at the least

VARIABLES
    numberDof,       \* unsigned int numberDof() const
    config,          \* const vectorN& currentConfiguration() const
    velocity,        \* const vectorN& currentVelocity() const
    acceleration,    \* const vectorN& currentAcceleration() const
    fixedJoints,     \* "the vector of fixed joints"
    outjacobian,     \* matrixNxP& outjacobian, after the last Jacobian call
    call             \* the last call: its name, arguments, prior state, result

vars == <<numberDof, config, velocity, acceleration, fixedJoints, outjacobian, call>>

Joints == 1..NumJoints
Values == {0, 1}
Range(s) == {s[i] : i \in DOMAIN s}

\* A vectorN whose entries all equal c.
Vector(n, c) == [i \in 1..n |-> c]
InputVectors == {Vector(n, c) : n \in 0..(MaxDof + 1), c \in Values}

\* A record of the last call; fields a call does not use hold "none".
Call(op, arg, pre, result) == [op |-> op, arg |-> arg, pre |-> pre, result |-> result]

Setters == {"currentConfiguration", "currentVelocity", "currentAcceleration"}
JacobianMethods == {"getJacobian", "getPositionJacobian",
                    "getOrientationJacobian", "getJacobianCenterOfMass"}

----------------------------------------------------------------------------
\* Configuration, velocity and acceleration

SetterAcceptsLoose(v, dof) == Len(v) >= dof

\* "true if success, false if failure (the dimension of the input vector
\* does not fit the number of degrees of freedom of the robot)"
SetterAccepts(v, dof) == Len(v) = dof

currentConfiguration(v) ==
    /\ config' = IF SetterAccepts(v, numberDof) THEN v ELSE config
    /\ call' = Call("currentConfiguration", Len(v), config, SetterAccepts(v, numberDof))
    /\ UNCHANGED <<numberDof, velocity, acceleration, fixedJoints, outjacobian>>

currentVelocity(v) ==
    /\ velocity' = IF SetterAccepts(v, numberDof) THEN v ELSE velocity
    /\ call' = Call("currentVelocity", Len(v), velocity, SetterAccepts(v, numberDof))
    /\ UNCHANGED <<numberDof, config, acceleration, fixedJoints, outjacobian>>

currentAcceleration(v) ==
    /\ acceleration' = IF SetterAccepts(v, numberDof) THEN v ELSE acceleration
    /\ call' = Call("currentAcceleration", Len(v), acceleration, SetterAccepts(v, numberDof))
    /\ UNCHANGED <<numberDof, config, velocity, fixedJoints, outjacobian>>

----------------------------------------------------------------------------
\* Fixed joints

\* "Add a joint to the vector of fixed joints.  This Declares a joint as
\* fixed in the world."  The header does not say whether a joint that is
\* already fixed is added a second time: both outcomes are admitted.
addFixedJointResults(fixed, j) ==
    {Append(fixed, j)} \cup (IF j \in Range(fixed) THEN {fixed} ELSE {})

addFixedJoint(j) ==
    /\ Len(fixedJoints) < MaxFixed
    /\ fixedJoints' \in addFixedJointResults(fixedJoints, j)
    /\ call' = Call("addFixedJoint", j, fixedJoints, "none")
    /\ UNCHANGED <<numberDof, config, velocity, acceleration, outjacobian>>

\* "Count joints that are fixed in the world."
countFixedJoints == Len(fixedJoints)

RECURSIVE EraseFirst(_, _)
EraseFirst(fixed, j) ==
    IF fixed = <<>> THEN <<>>
    ELSE IF Head(fixed) = j THEN Tail(fixed)
    ELSE <<Head(fixed)>> \o EraseFirst(Tail(fixed), j)

\* "Remove a joint from the vector of fixed joints.  The input joint will
\* no longer be considered fixed in the world."
Erase(fixed, j) == SelectSeq(fixed, LAMBDA x : x # j)

removeFixedJoint(j) ==
    /\ fixedJoints' = Erase(fixedJoints, j)
    /\ call' = Call("removeFixedJoint", j, fixedJoints, "none")
    /\ UNCHANGED <<numberDof, config, velocity, acceleration, outjacobian>>

\* "Clear the list of fixed joints"
clearFixedJoints ==
    /\ fixedJoints' = <<>>
    /\ call' = Call("clearFixedJoints", "none", fixedJoints, "none")
    /\ UNCHANGED <<numberDof, config, velocity, acceleration, outjacobian>>

\* "Return the fixed joint at rank inRank".  The method returns a
\* reference and the header names no outcome for a rank that is not below
\* countFixedJoints(): an implementation may raise an error or return a
\* reference to anything.
fixedJointResults(fixed, rank) ==
    IF rank < Len(fixed) THEN {[error |-> "none", joint |-> fixed[rank + 1]]}
    ELSE {[error |-> "OutOfRange", joint |-> 0]}
         \cup {[error |-> "none", joint |-> j] : j \in Joints}

fixedJoint(rank) ==
    /\ \E r \in fixedJointResults(fixedJoints, rank) :
           call' = Call("fixedJoint", rank, fixedJoints, r)
    /\ UNCHANGED <<numberDof, config, velocity, acceleration, fixedJoints, outjacobian>>

----------------------------------------------------------------------------
\* Jacobian functions

\* An output matrix is modelled column by column: a column holds "prior"
\* while it has the content the caller handed in, "written" once the
\* method has written it.
Matrix(ncols) == [c \in 1..ncols |-> "prior"]
InputMatrices == {Matrix(n) : n \in 0..MaxCols}

\* "Number of columns in matrix must be at least numberDof() if
\* inIncludeStartFreeFlyer = true.  It must be at least numberDof()-6
\* otherwise."  numberDof() is an unsigned int: for a robot of fewer than
\* six degrees of freedom the difference is either taken as the integer
\* it denotes (no column is required) or wraps around, to a count no
\* matrix of the model has whatever the width of unsigned int.
RequiredColumns(dof, inIncludeStartFreeFlyer) ==
    IF inIncludeStartFreeFlyer THEN {dof}
    ELSE {dof - FreeFlyerDof, (dof - FreeFlyerDof) % (2 ^ UIntWidth)}

WriteFromPreviousColumn(pre, offset, required) ==
    [c \in 1..Len(pre) |->
        IF c >= offset /\ c <= offset + required THEN "written" ELSE pre[c]]

\* "offset is the rank of the column of outjacobian where writing of
\* jacobian begins": ranks count from 0, so the block of `required`
\* columns occupies the ranks offset .. offset + required - 1.
Write(pre, offset, required) ==
    [c \in 1..Len(pre) |->
        IF c > offset /\ c <= offset + required THEN "written" ELSE pre[c]]

\* The header does not say what a failed call leaves in the matrix.
FailedMatrices(pre) == {pre, [c \in 1..Len(pre) |-> "written"]}

\* "\return false if matrix has inadequate size."  A matrix with fewer
\* columns than required is inadequate.  Whether a matrix that has the
\* required columns, but not after `offset`, is inadequate too is not
\* stated: the call may fail, or succeed and write the columns it has.
JacobianOutcomes(pre, offset, inIncludeStartFreeFlyer, dof) ==
    UNION {
        IF Len(pre) < required
        THEN {[result |-> FALSE, matrix |-> m] : m \in FailedMatrices(pre)}
        ELSE {[result |-> TRUE, matrix |-> Write(pre, offset, required)]}
             \cup (IF offset + required > Len(pre)
                   THEN {[result |-> FALSE, matrix |-> m] : m \in FailedMatrices(pre)}
                   ELSE {})
        : required \in RequiredColumns(dof, inIncludeStartFreeFlyer)}

\* getJacobian, getPositionJacobian, getOrientationJacobian and
\* getJacobianCenterOfMass share the parameters outjacobian, offset and
\* inIncludeStartFreeFlyer and the one comment that documents them.
getJacobian(method, pre, offset, inIncludeStartFreeFlyer) ==
    /\ \E o \in JacobianOutcomes(pre, offset, inIncludeStartFreeFlyer, numberDof) :
        /\ outjacobian' = o.matrix
        /\ call' = Call(method,
                        [offset |-> offset, freeFlyer |-> inIncludeStartFreeFlyer],
                        pre, o.result)
    /\ UNCHANGED <<numberDof, config, velocity, acceleration, fixedJoints>>

----------------------------------------------------------------------------
\* Control of the implementation

\* Property names and values handed to the property methods: names the
\* documentation recommends, a name no implementation knows, the empty name.
PropertyNames == {"ComputeVelocity", "ComputeAcceleration", "ComputeZMP", "NoSuchProperty", ""}
PropertyValues == {"", "true", "false"}

\* The state of the robot, as a setProperty call could change it.
RobotState == <<numberDof, config, velocity, acceleration, fixedJoints>>

\* virtual bool isSupported(const std::string &inProperty) {return false;}
isSupportedResult(inProperty) == FALSE

\* virtual bool getProperty(const std::string &inProperty,
\*                          std::string& outValue) {return false;}
\* The body does not assign outValue.
getPropertyResult(inProperty, outValue) == [ret |-> FALSE, outValue |-> outValue]

setPropertyKnowsName(inProperty, inValue) == inProperty = "ComputeZMP"

\* virtual bool setProperty(std::string &inProperty,
\*                          const std::string& inValue) {return false;}
setPropertyResult(inProperty, inValue) == FALSE

isSupported(inProperty) ==
    /\ call' = Call("isSupported", inProperty, RobotState,
                    [ret |-> isSupportedResult(inProperty), outValue |-> "none"])
    /\ UNCHANGED <<numberDof, config, velocity, acceleration, fixedJoints, outjacobian>>

getProperty(inProperty, outValue) ==
    /\ call' = Call("getProperty", [name |-> inProperty, outValue |-> outValue],
                    RobotState, getPropertyResult(inProperty, outValue))
    /\ UNCHANGED <<numberDof, config, velocity, acceleration, fixedJoints, outjacobian>>

setProperty(inProperty, inValue) ==
    /\ call' = Call("setProperty", [name |-> inProperty, value |-> inValue],
                    RobotState,
                    [ret |-> setPropertyResult(inProperty, inValue), outValue |-> "none"])
    /\ UNCHANGED <<numberDof, config, velocity, acceleration, fixedJoints, outjacobian>>

PropertyMethods == {"isSupported", "getProperty", "setProperty"}

----------------------------------------------------------------------------
\* Specifications

\* The robot after initialize(): numberDof() is fixed, no joint is fixed.
Init ==
    /\ numberDof \in (FreeFlyerDof - 1)..MaxDof
    /\ config = Vector(numberDof, 0)
    /\ velocity = Vector(numberDof, 0)
    /\ acceleration = Vector(numberDof, 0)
    /\ fixedJoints = <<>>
    /\ outjacobian = <<>>
    /\ call = Call("initialize", "none", "none", "none")

NextConfiguration ==
    \/ \E v \in InputVectors : currentConfiguration(v)
    \/ \E v \in InputVectors : currentVelocity(v)
    \/ \E v \in InputVectors : currentAcceleration(v)

NextFixedJoints ==
    \/ \E j \in Joints : addFixedJoint(j)
    \/ \E j \in Joints : removeFixedJoint(j)
    \/ clearFixedJoints
    \/ \E rank \in 0..MaxFixed : fixedJoint(rank)

NextJacobian ==
    \E method \in JacobianMethods, pre \in InputMatrices,
       offset \in 0..MaxOffset, ff \in BOOLEAN :
        getJacobian(method, pre, offset, ff)

NextProperties ==
    \/ \E name \in PropertyNames : isSupported(name)
    \/ \E name \in PropertyNames, value \in PropertyValues : getProperty(name, value)
    \/ \E name \in PropertyNames, value \in PropertyValues : setProperty(name, value)

Next == NextConfiguration \/ NextFixedJoints \/ NextJacobian \/ NextProperties

\* The whole interface.
Spec == Init /\ [][Next]_vars
\* A client that only sets configuration, velocity and acceleration.
SpecConfiguration == Init /\ [][NextConfiguration]_vars
\* A client that only edits and reads the fixed joints.
SpecFixedJoints == Init /\ [][NextFixedJoints]_vars
\* A client that only asks for Jacobians.
SpecJacobian == Init /\ [][NextJacobian]_vars
\* A client that sets configuration, velocity and acceleration and uses the
\* property methods of the base class.
SpecProperties == Init /\ [][NextConfiguration \/ NextProperties]_vars

----------------------------------------------------------------------------
\* Properties

\* Number of occurrences of joint j in a vector of joints.
Occurrences(fixed, j) == Cardinality({i \in DOMAIN fixed : fixed[i] = j})

\* C1: each of the setters currentConfiguration(v), currentVelocity(v) and
\* currentAcceleration(v) returns false for every vector whose length
\* differs from numberDof() and true when the length equals numberDof().
C1_SetterResult ==
    call.op \in Setters => (call.result <=> (call.arg = numberDof))

\* A setter has refused a vector that is longer than numberDof().
C1_Witness ==
    /\ call.op = "currentAcceleration"
    /\ call.arg > numberDof
    /\ call.result = FALSE

\* C5: removeFixedJoint(j) on a joint that is not fixed leaves the vector of
\* fixed joints, countFixedJoints() and fixedJoint(i) for every valid rank
\* unchanged; on a joint that is fixed it removes exactly that joint, so
\* that j is no longer fixed and every other joint is as before.
C5_RemoveFixedJoint ==
    call.op = "removeFixedJoint" =>
        LET pre == call.pre
            j == call.arg
        IN  /\ j \notin Range(pre) =>
                /\ fixedJoints = pre
                /\ countFixedJoints = Len(pre)
                /\ \A rank \in 0..(Len(pre) - 1) :
                       fixedJointResults(fixedJoints, rank) = fixedJointResults(pre, rank)
            /\ j \in Range(pre) =>
                /\ j \notin Range(fixedJoints)
                /\ \A k \in Joints \ {j} :
                       Occurrences(fixedJoints, k) = Occurrences(pre, k)
                /\ countFixedJoints = Len(pre) - Occurrences(pre, j)

\* A joint that was fixed twice has been removed while another stays fixed.
C5_Witness ==
    /\ call.op = "removeFixedJoint"
    /\ Occurrences(call.pre, call.arg) = 2
    /\ countFixedJoints = 1

\* C10: a successful getJacobian, getPositionJacobian, getOrientationJacobian
\* or getJacobianCenterOfMass call with column offset k leaves every column
\* of rank below k as it was before the call; what it writes begins at the
\* column of rank k.
C10_ColumnsBeforeOffset ==
    (call.op \in JacobianMethods /\ call.result = TRUE) =>
        LET pre == call.pre
            k == call.arg.offset
        IN  /\ Len(outjacobian) = Len(pre)
            /\ \A c \in 1..Len(pre) : c <= k => outjacobian[c] = pre[c]
            /\ (\E c \in 1..Len(pre) : outjacobian[c] # pre[c]) =>
                   outjacobian[k + 1] # pre[k + 1]

\* A call with a positive offset has succeeded and has written the matrix.
C10_Witness ==
    /\ call.op = "getOrientationJacobian"
    /\ call.result = TRUE
    /\ call.arg.offset > 0
    /\ Len(outjacobian) > call.arg.offset
    /\ outjacobian[call.arg.offset + 1] = "written"
    /\ outjacobian[call.arg.offset] = "prior"

\* C11: on every property name the base-class isSupported, getProperty and
\* setProperty return false; getProperty leaves outValue as the caller
\* handed it in, and setProperty (like the other two) changes no state of
\* the robot.
C11_PropertiesUnsupported ==
    call.op \in PropertyMethods =>
        /\ call.result.ret = FALSE
        /\ call.op = "getProperty" => call.result.outValue = call.arg.outValue
        /\ RobotState = call.pre

\* getProperty has been asked for a recommended name with a non-empty
\* outValue, on a robot whose configuration has been set before.
C11_Witness ==
    /\ call.op = "getProperty"
    /\ call.arg.name = "ComputeZMP"
    /\ call.arg.outValue = "true"
    /\ call.result.outValue = "true"
    /\ config = Vector(numberDof, 1)

====
